---- MODULE Spec2Model ----
(***************************************************************************)
(* A model of ripe_inetnum_query.py: the prefix normalizer                 *)
(* (validate_prefix), the range query builder (_search_with_simple_api),   *)
(* the registry client (_query_range), the record extractor                *)
(* (_extract_record_from_object), the result aggregator                    *)
(* (_process_all_objects, _process_response_objects) and the containment   *)
(* filter (_record_in_prefix), with main() as the program around them.     *)
(*                                                                         *)
(* Text.  A string the program parses as an address is modelled by its     *)
(* lexical structure.  An AddrText is one address-like word,               *)
(*   [addr, g, suffix, len]                                                *)
(* addr   "v4" (a dotted quad, g its 4 octets), "v6" (a colon-hex address  *)
(*        without a zone, g its 8 hextets) or "junk" (anything else,       *)
(*        g = <<>>);                                                       *)
(* suffix "none" (no '/'), "len" ('/' and the decimal number len), "bad"   *)
(*        ('/' and something that is no number), "many" (several '/').     *)
(* A Text is a sequence of AddrTexts: the words of the string between its  *)
(* ' - ' separators ("10.0.0.0 - 10.0.0.255" has two words).               *)
(*                                                                         *)
(* JSON.  A raw registry object is a record of the shapes the extractor    *)
(* distinguishes: whether it is a JSON object at all, its type tag, the    *)
(* shape of its 'primary-key' member and of its 'attributes' member.       *)
(***************************************************************************)
EXTENDS Integers, Sequences, FiniteSets, TLC

VARIABLES
    pc,         \* position of main(): start, search, waiting, render, exit;
                \* or of a function applied on its own: call, return
    arg,        \* args.prefix, an AddrText
    prefix,     \* <<network>> once validate_prefix returned it, else <<>>
    requests,   \* the HTTP GETs issued so far: [query, type]
    slept,      \* seconds spent in time.sleep
    response,   \* <<outcome>> of the GET once it has come back, else <<>>
    results,    \* the Result Set: the list `results`
    extracted,  \* what _extract_record_from_object returned, object by object
    verdicts,   \* what _record_in_prefix returned, object by object
    raised,     \* the exception main() caught: [exc, wrapped, triedV6]
    exitCode,   \* -1 while running, then the process's exit code
    rendered,   \* [fmt, records]: the renderer called and what it was given
    data,       \* the response body a function applied on its own is given
    target      \* target_prefix of _process_response_objects

vars == <<pc, arg, prefix, requests, slept, response, results, extracted,
          verdicts, raised, exitCode, rendered, data, target>>

-----------------------------------------------------------------------------
(* Bounds of the model. *)

\* Longest list of raw objects in one response body.
MaxBatch == 3
\* Longest attribute list of one raw object.
MaxAttrs == 3
\* Longest list of raw objects given to _process_response_objects.
MaxFilterBatch == 2

-----------------------------------------------------------------------------
(* Addresses: ipaddress.IPv4Address / IPv6Address as the sequence of their *)
(* groups (4 octets, 8 hextets), most significant first.                   *)

RECURSIVE Pow2(_)
Pow2(n) == IF n = 0 THEN 1 ELSE 2 * Pow2(n - 1)

RECURSIVE BitAnd(_, _, _)
BitAnd(a, b, w) ==
    IF w = 0 THEN 0
    ELSE (a % 2) * (b % 2) + 2 * BitAnd(a \div 2, b \div 2, w - 1)

RECURSIVE BitOr(_, _, _)
BitOr(a, b, w) ==
    IF w = 0 THEN 0
    ELSE (IF a % 2 = 1 \/ b % 2 = 1 THEN 1 ELSE 0)
         + 2 * BitOr(a \div 2, b \div 2, w - 1)

GroupBits(version) == IF version = 4 THEN 8 ELSE 16
GroupCount(version) == IF version = 4 THEN 4 ELSE 8
MaxPrefixLen(version) == GroupBits(version) * GroupCount(version)
FamilyTag(version) == IF version = 4 THEN "v4" ELSE "v6"

\* The host bits of group i (1 = most significant) under prefix length len.
HostBits(version, len, i) ==
    LET w == GroupBits(version)
        covered == len - (i - 1) * w
    IN  IF covered >= w THEN 0 ELSE IF covered <= 0 THEN w ELSE w - covered

\* Group i of the hostmask and of the netmask of a prefix length.
HostmaskGroup(version, len, i) == Pow2(HostBits(version, len, i)) - 1
NetmaskGroup(version, len, i) ==
    (Pow2(GroupBits(version)) - 1) - HostmaskGroup(version, len, i)

\* A network that keeps the host bits of the address it was given.
NetworkAddressUnmasked(version, g, len) == g

\* int(address) & int(netmask): the network address of a non-strict network.
NetworkAddress(version, g, len) ==
    [i \in 1..GroupCount(version) |->
        BitAnd(g[i], NetmaskGroup(version, len, i), GroupBits(version))]

\* network.broadcast_address: int(network_address) | int(hostmask).
BroadcastAddress(net) ==
    [i \in 1..GroupCount(net.version) |->
        BitOr(net.g[i], HostmaskGroup(net.version, net.len, i),
              GroupBits(net.version))]

\* Address comparison: the order of the integers, group by group.
RECURSIVE AddrLtFrom(_, _, _)
AddrLtFrom(a, b, i) ==
    IF i > Len(a) THEN FALSE
    ELSE IF a[i] # b[i] THEN a[i] < b[i]
    ELSE AddrLtFrom(a, b, i + 1)

AddrLt(a, b) == AddrLtFrom(a, b, 1)
AddrLe(a, b) == a = b \/ AddrLt(a, b)

\* str(address) and str(network).
AddrStr(version, g) ==
    [addr |-> FamilyTag(version), g |-> g, suffix |-> "none", len |-> 0]
NetworkStr(net) ==
    [addr |-> FamilyTag(net.version), g |-> net.g, suffix |-> "len",
     len |-> net.len]

-----------------------------------------------------------------------------
(* ipaddress.IPv4Network(s, strict=False) and IPv6Network(s, strict=False) *)
(* on an AddrText: the address is split from the prefix length (more than  *)
(* one '/' is an AddressValueError), the address is parsed                 *)
(* (AddressValueError), then the prefix length (NetmaskValueError, which   *)
(* is a ValueError and not an AddressValueError), then host bits are       *)
(* masked off.                                                             *)

Ok(net) == [ok |-> TRUE, net |-> net, exc |-> "none"]
Raise(exc) ==
    [ok |-> FALSE, net |-> [version |-> 0, g |-> <<>>, len |-> 0], exc |-> exc]

ParseNetwork(s, version) ==
    IF s.suffix = "many" THEN Raise("AddressValueError")
    ELSE IF s.addr # FamilyTag(version) THEN Raise("AddressValueError")
    ELSE IF s.suffix = "bad" THEN Raise("NetmaskValueError")
    ELSE IF s.suffix = "len" /\ s.len > MaxPrefixLen(version)
         THEN Raise("NetmaskValueError")
    ELSE LET len == IF s.suffix = "none" THEN MaxPrefixLen(version) ELSE s.len
         IN  Ok([version |-> version,
                 g |-> NetworkAddress(version, s.g, len),
                 len |-> len])

\* ipaddress.IPv4Address(s): s must be a bare dotted quad.
IsIPv4Address(s) == s.addr = "v4" /\ s.suffix = "none"

-----------------------------------------------------------------------------
(* validate_prefix.  The result says whether a network came back and, if   *)
(* not, which exception left the function: wrapped is TRUE when it is the  *)
(* AddressValueError of line 400, whose message carries the original       *)
(* string and the reason; triedV6 whether IPv6Network was called.          *)

NoError == [exc |-> "none", wrapped |-> FALSE, triedV6 |-> FALSE]

validate_prefix(prefix_str) ==
    LET v4 == ParseNetwork(prefix_str, 4)
        v6 == ParseNetwork(prefix_str, 6)
    IN  IF v4.ok
        THEN [ok |-> TRUE, net |-> v4.net, err |-> NoError]
        ELSE IF v4.exc # "AddressValueError"
        THEN [ok |-> FALSE, net |-> v4.net,
              err |-> [exc |-> v4.exc, wrapped |-> FALSE, triedV6 |-> FALSE]]
        ELSE IF v6.ok
        THEN [ok |-> TRUE, net |-> v6.net,
              err |-> [exc |-> "none", wrapped |-> FALSE, triedV6 |-> TRUE]]
        ELSE IF v6.exc = "AddressValueError"
        THEN [ok |-> FALSE, net |-> v6.net,
              err |-> [exc |-> "AddressValueError", wrapped |-> TRUE,
                       triedV6 |-> TRUE]]
        ELSE [ok |-> FALSE, net |-> v6.net,
              err |-> [exc |-> v6.exc, wrapped |-> FALSE, triedV6 |-> TRUE]]

-----------------------------------------------------------------------------
(* _search_with_simple_api: the one Range Query of a prefix.               *)

RangeQuery(net) ==
    IF net.version = 4
    THEN [query |-> <<AddrStr(4, net.g), AddrStr(4, BroadcastAddress(net))>>,
          type |-> "inetnum"]
    ELSE [query |-> <<NetworkStr(net)>>, type |-> "inet6num"]

-----------------------------------------------------------------------------
(* Raw registry objects.                                                   *)
(*   dict   FALSE: the value is no JSON object (a string, a number, a      *)
(*          list), so obj.get raises;                                      *)
(*   type   the type tag, "absent" when the key is missing;                *)
(*   pk     the 'primary-key' member: shape "absent" (no such key),        *)
(*          "scalar" (null or a number: the `in` test raises), "noattr"    *)
(*          (an object without 'attribute'), "bare" (its 'attribute' is    *)
(*          one object, not a list), "list" (a list of entries);           *)
(*   attrs  the 'attributes' member, with the same shapes and "text" (a    *)
(*          string or a list, in which `'attribute' in` is just False).    *)
(* A primary-key entry is [dict, hasValue, value], an attribute entry      *)
(* [dict, hasName, name, hasValue, value]; dict FALSE is an entry that is  *)
(* no JSON object.                                                         *)

RecognizedTypes == {"inetnum", "inet6num"}
RecognizedFields ==
    {"netname", "descr", "country", "org", "admin-c", "tech-c", "status",
     "mnt-by", "created", "last-modified"}

None == <<>>
Some(record) == <<record>>

\* attr.get('name', '') and attr.get('value', '').
AttrName(attr) == IF attr.hasName THEN attr.name ELSE ""
AttrValue(attr) == IF attr.hasValue THEN attr.value ELSE ""

\* A merge in which a repeated name overwrites the field.
MergeAttributeOverwrite(record, attr) ==
    LET name == AttrName(attr)
        value == AttrValue(attr)
    IN  IF name \in RecognizedFields
        THEN (name :> [list |-> FALSE, vals |-> <<value>>]) @@ record
        ELSE record

\* Lines 287-295: one attribute merged into the record.  A field is
\* [list, vals]: the single value vals[1], or the list vals.
MergeAttribute(record, attr) ==
    LET name == AttrName(attr)
        value == AttrValue(attr)
    IN  IF name \in RecognizedFields
        THEN IF name \in DOMAIN record
             THEN IF record[name].list
                  THEN [record EXCEPT ![name].vals = Append(@, value)]
                  ELSE [record EXCEPT
                           ![name] = [list |-> TRUE,
                                      vals |-> <<record[name].vals[1], value>>]]
             ELSE (name :> [list |-> FALSE, vals |-> <<value>>]) @@ record
        ELSE record

RECURSIVE MergeAttributes(_, _)
MergeAttributes(record, attributes) ==
    IF attributes = <<>> THEN record
    ELSE MergeAttributes(MergeAttribute(record, Head(attributes)),
                         Tail(attributes))

\* Line 273 raises: [0] of an empty list (IndexError) or of an object
\* (KeyError), ['value'] of an entry that is no object (TypeError) or has
\* no such key (KeyError); line 272 raises on a scalar (TypeError).
PrimaryKeyRaises(pk) ==
    \/ pk.shape \in {"scalar", "bare"}
    \/ /\ pk.shape = "list"
       /\ \/ pk.items = <<>>
          \/ ~pk.items[1].dict
          \/ ~pk.items[1].hasValue

\* A loop that runs over the bare attribute itself where the code wraps it:
\* over its keys, which are strings and no attribute entries.
AttributesOfUnwrapped(attrs) ==
    IF attrs.shape = "list" THEN attrs.items
    ELSE IF attrs.shape = "bare"
    THEN IF attrs.items[1].dict
            /\ ~attrs.items[1].hasName /\ ~attrs.items[1].hasValue
         THEN <<>>
         ELSE <<[attrs.items[1] EXCEPT !.dict = FALSE]>>
    ELSE <<>>

\* Lines 278-281: the entries the loop runs over.  A list is taken as it
\* is; an 'attribute' member that is no list (the "bare" shape, whose one
\* value is items[1]) is wrapped into a list of one.
AttributesOf(attrs) ==
    IF attrs.shape = "list" THEN attrs.items
    ELSE IF attrs.shape = "bare" THEN <<attrs.items[1]>>
    ELSE <<>>

\* Lines 278-285 raise: `in` on a scalar (TypeError), attr.get on an entry
\* that is no object (AttributeError).
AttributesRaise(attrs) ==
    \/ attrs.shape = "scalar"
    \/ \E i \in 1..Len(AttributesOf(attrs)) : ~AttributesOf(attrs)[i].dict

\* An extractor that does not look at the type tag.
ExtractRecordAnyType(obj) ==
    IF ~obj.dict THEN None
    ELSE IF obj.pk.shape \in {"absent", "noattr"} THEN None
    ELSE IF PrimaryKeyRaises(obj.pk) THEN None
    ELSE IF AttributesRaise(obj.attrs) THEN None
    ELSE LET record == [inetnum |-> obj.pk.items[1].value]
         IN  IF obj.attrs.shape \in {"list", "bare"}
             THEN Some(MergeAttributes(record, AttributesOf(obj.attrs)))
             ELSE Some(record)

\* An extractor that returns what it has built when an attribute entry
\* makes it raise.
ExtractRecordPartial(obj) ==
    IF ~obj.dict THEN None
    ELSE IF obj.type \notin RecognizedTypes THEN None
    ELSE IF obj.pk.shape \in {"absent", "noattr"} THEN None
    ELSE IF PrimaryKeyRaises(obj.pk) THEN None
    ELSE IF obj.attrs.shape = "scalar" THEN None
    ELSE LET record == [inetnum |-> obj.pk.items[1].value]
         IN  IF obj.attrs.shape \in {"list", "bare"}
             THEN Some(MergeAttributes(record,
                          SelectSeq(AttributesOf(obj.attrs),
                                    LAMBDA e : e.dict)))
             ELSE Some(record)

\* _extract_record_from_object: None, or Some record.  A record is a
\* function from its keys: inetnum to the primary-key value (a Text), a
\* recognized field to [list, vals].
ExtractRecord(obj) ==
    IF ~obj.dict THEN None
    ELSE IF obj.type \notin RecognizedTypes THEN None
    ELSE IF obj.pk.shape \in {"absent", "noattr"} THEN None
    ELSE IF PrimaryKeyRaises(obj.pk) THEN None
    ELSE IF AttributesRaise(obj.attrs) THEN None
    ELSE LET record == [inetnum |-> obj.pk.items[1].value]
         IN  IF obj.attrs.shape \in {"list", "bare"}
             THEN Some(MergeAttributes(record, AttributesOf(obj.attrs)))
             ELSE Some(record)

-----------------------------------------------------------------------------
(* Response bodies: the parsed JSON `data`.  shape "noobjects" (no         *)
(* 'objects' key), "noobject" (no 'object' key in it), "scalar" ('objects' *)
(* is null or a number: the `in` test raises TypeError), "bare" ('object'  *)
(* is one value, not a list), "list".                                      *)

\* Line 192 or 244 raises.
BodyRaises(body) == body.shape = "scalar"

\* Lines 192-197: the objects the loop runs over.  A list is taken as it
\* is; an 'object' member that is no list (the "bare" shape, whose one value
\* is items[1]) is wrapped into a list of one.
ObjectsOf(body) ==
    IF body.shape = "list" THEN body.items
    ELSE IF body.shape = "bare" THEN <<body.items[1]>>
    ELSE <<>>

\* A duplicate check that looks at the last record only.
IsDuplicateOfLast(res, record) ==
    res # <<>> /\ res[Len(res)].inetnum = record.inetnum

\* Line 203: is a record with this inetnum already in the results?
IsDuplicate(res, record) ==
    \E i \in 1..Len(res) : res[i].inetnum = record.inetnum

\* Lines 200-204: one turn of the loop.
Admit(res, obj) ==
    LET r == ExtractRecord(obj)
    IN  IF r # None /\ ~IsDuplicate(res, r[1]) THEN Append(res, r[1]) ELSE res

\* A loop that stops at the first object the extractor discards.
RECURSIVE AdmitAllAbort(_, _)
AdmitAllAbort(res, objects) ==
    IF objects = <<>> THEN res
    ELSE IF ExtractRecord(Head(objects)) = None THEN res
    ELSE AdmitAllAbort(Admit(res, Head(objects)), Tail(objects))

RECURSIVE AdmitAll(_, _)
AdmitAll(res, objects) ==
    IF objects = <<>> THEN res
    ELSE AdmitAll(Admit(res, Head(objects)), Tail(objects))

\* _process_all_objects, for a body on which it does not raise.
ProcessAllObjects(body, res) == AdmitAll(res, ObjectsOf(body))

\* What the extractor returned for each object of the body, in order.
ExtractedOf(body) ==
    [i \in 1..Len(ObjectsOf(body)) |-> ExtractRecord(ObjectsOf(body)[i])]

-----------------------------------------------------------------------------
(* _record_in_prefix and _process_response_objects.                        *)

\* `address in network` (ipaddress): same version, and the address masked
\* by the network's netmask is the network address.
AddrInNetwork(version, g, net) ==
    /\ version = net.version
    /\ NetworkAddress(version, g, net.len) = net.g

\* network.overlaps(other).
Overlaps(a, b) ==
    \/ AddrInNetwork(a.version, a.g, b)
    \/ AddrInNetwork(a.version, BroadcastAddress(a), b)
    \/ AddrInNetwork(b.version, b.g, a)
    \/ AddrInNetwork(b.version, BroadcastAddress(b), a)

\* A filter that asks for containment in the prefix where the code asks
\* for overlap.
RecordInPrefixContained(record, target_prefix) ==
    LET text == record.inetnum
    IN  IF target_prefix.version = 4
        THEN IF Len(text) >= 2
             THEN IF Len(text) # 2 THEN FALSE
                  ELSE IF ~IsIPv4Address(text[1]) \/ ~IsIPv4Address(text[2])
                  THEN FALSE
                  ELSE ~(\/ AddrLt(text[1].g, target_prefix.g)
                         \/ AddrLt(BroadcastAddress(target_prefix), text[2].g))
             ELSE LET network == ParseNetwork(text[1], 4)
                  IN  network.ok /\ Overlaps(network.net, target_prefix)
        ELSE LET network == IF Len(text) = 1 THEN ParseNetwork(text[1], 6)
                            ELSE Raise("AddressValueError")
             IN  network.ok /\ Overlaps(network.net, target_prefix)

\* _record_in_prefix.  Len(text) >= 2 is `' - ' in inetnum_str`; a split
\* into other than two words raises ValueError at the unpacking, a word
\* that is no IPv4 address AddressValueError, a bad prefix length
\* NetmaskValueError (a ValueError): each is caught and gives False.
RecordInPrefix(record, target_prefix) ==
    LET text == record.inetnum
    IN  IF target_prefix.version = 4
        THEN IF Len(text) >= 2
             THEN IF Len(text) # 2 THEN FALSE
                  ELSE IF ~IsIPv4Address(text[1]) \/ ~IsIPv4Address(text[2])
                  THEN FALSE
                  ELSE ~(\/ AddrLt(text[2].g, target_prefix.g)
                         \/ AddrLt(BroadcastAddress(target_prefix), text[1].g))
             ELSE LET network == ParseNetwork(text[1], 4)
                  IN  network.ok /\ Overlaps(network.net, target_prefix)
        ELSE LET network == IF Len(text) = 1 THEN ParseNetwork(text[1], 6)
                            ELSE Raise("AddressValueError")
             IN  network.ok /\ Overlaps(network.net, target_prefix)

\* Lines 252-256: one turn of the loop of _process_response_objects.
AdmitInPrefix(res, obj, target_prefix) ==
    LET r == ExtractRecord(obj)
    IN  IF /\ r # None
           /\ RecordInPrefix(r[1], target_prefix)
           /\ ~IsDuplicate(res, r[1])
        THEN Append(res, r[1])
        ELSE res

RECURSIVE AdmitAllInPrefix(_, _, _)
AdmitAllInPrefix(res, objects, target_prefix) ==
    IF objects = <<>> THEN res
    ELSE AdmitAllInPrefix(AdmitInPrefix(res, Head(objects), target_prefix),
                          Tail(objects), target_prefix)

\* _process_response_objects, for a body on which it does not raise.
ProcessResponseObjects(body, target_prefix, res) ==
    AdmitAllInPrefix(res, ObjectsOf(body), target_prefix)

\* What _record_in_prefix returned for each object of the body: <<>> where
\* it was not called (the extractor returned None), else the one-element
\* sequence of the boolean it returned.
VerdictsOf(body, target_prefix) ==
    [i \in 1..Len(ObjectsOf(body)) |->
        LET r == ExtractRecord(ObjectsOf(body)[i])
        IN  IF r = None THEN <<>>
            ELSE <<RecordInPrefix(r[1], target_prefix)>>]

-----------------------------------------------------------------------------
(* _query_range after session.get: what one outcome of the GET does.  An   *)
(* outcome is [kind, status, json, body]: kind "exception" (session.get    *)
(* raised) or "response"; json says whether response.json() parses the     *)
(* body; body is the parsed JSON.  The result is the list `results`, the   *)
(* seconds slept, and whether the range is queried again: the function has *)
(* one session.get and every branch returns, so it never is.               *)

BackoffSeconds == 5

\* A client that queries the range again after the backoff.
HandleOutcomeRetry(outcome, res) ==
    IF outcome.kind = "response" /\ outcome.status = 429
    THEN [results |-> res, slept |-> BackoffSeconds, again |-> TRUE]
    ELSE IF outcome.kind = "response" /\ outcome.status = 200 /\ outcome.json
            /\ ~BodyRaises(outcome.body)
    THEN [results |-> ProcessAllObjects(outcome.body, res), slept |-> 0,
          again |-> FALSE]
    ELSE [results |-> res, slept |-> 0, again |-> FALSE]

\* A client that processes the body of an error response too.
HandleOutcomeAnyStatus(outcome, res) ==
    IF outcome.kind = "response" /\ outcome.json /\ ~BodyRaises(outcome.body)
    THEN [results |-> ProcessAllObjects(outcome.body, res),
          slept |-> IF outcome.status = 429 THEN BackoffSeconds ELSE 0,
          again |-> FALSE]
    ELSE [results |-> res,
          slept |-> IF outcome.kind = "response" /\ outcome.status = 429
                    THEN BackoffSeconds ELSE 0,
          again |-> FALSE]

HandleOutcome(outcome, res) ==
    IF outcome.kind = "exception"
    THEN [results |-> res, slept |-> 0, again |-> FALSE]
    ELSE IF outcome.status = 429
    THEN [results |-> res, slept |-> BackoffSeconds, again |-> FALSE]
    ELSE IF outcome.status = 404
    THEN [results |-> res, slept |-> 0, again |-> FALSE]
    ELSE IF outcome.status # 200
    THEN [results |-> res, slept |-> 0, again |-> FALSE]
    ELSE IF ~outcome.json
    THEN [results |-> res, slept |-> 0, again |-> FALSE]
    ELSE IF BodyRaises(outcome.body)
    THEN [results |-> res, slept |-> 0, again |-> FALSE]
    ELSE [results |-> ProcessAllObjects(outcome.body, res), slept |-> 0,
          again |-> FALSE]

\* The objects the extractor was called on while the outcome was handled.
ExtractedDuring(outcome) ==
    IF /\ outcome.kind = "response"
       /\ outcome.status = 200
       /\ outcome.json
       /\ ~BodyRaises(outcome.body)
    THEN ExtractedOf(outcome.body)
    ELSE <<>>

-----------------------------------------------------------------------------
(* The inputs the model draws from.                                        *)

SeqsUpTo(S, n) == UNION {[1..k -> S] : k \in 0..n}

T4(a, b, c, d) == AddrStr(4, <<a, b, c, d>>)
T6(a, b, c, d) == AddrStr(6, <<a, b, 0, 0, 0, 0, c, d>>)
WithLen(s, len) == [s EXCEPT !.suffix = "len", !.len = len]
Junk == [addr |-> "junk", g |-> <<>>, suffix |-> "none", len |-> 0]

\* args.prefix: addresses with host bits and without, every IPv4 prefix
\* length and one beyond, IPv6 prefix lengths up to one beyond, a prefix
\* length that is no number, several slashes, no address at all.
V4Words == {T4(10, 0, 0, 0), T4(10, 0, 0, 200), T4(255, 255, 255, 255)}
V6Words == {T6(8193, 3512, 0, 0), T6(8193, 3512, 65535, 1)}
V4Lens == 0..(MaxPrefixLen(4) + 1)
V6Lens == {0, 32, 33, 64, 112, 127, 128, 129}
PrefixArgs ==
    V4Words \cup V6Words
    \cup {WithLen(w, n) : w \in V4Words, n \in V4Lens}
    \cup {WithLen(w, n) : w \in V6Words, n \in V6Lens}
    \cup {[w EXCEPT !.suffix = x] : w \in V4Words \cup V6Words,
                                    x \in {"bad", "many"}}
    \cup {Junk, WithLen(Junk, 24)}

\* --format.
Formats == {"table", "json", "csv"}

\* Primary-key values: "10.0.0.0 - 10.0.0.255" and "2001:db8::/32".
KeyX == <<T4(10, 0, 0, 0), T4(10, 0, 0, 255)>>
KeyY == <<WithLen(T6(8193, 3512, 0, 0), 32)>>

PkEntry(value) == [dict |-> TRUE, hasValue |-> TRUE, value |-> value]
PkEntryNoValue == [dict |-> TRUE, hasValue |-> FALSE, value |-> <<>>]
PkEntryNoDict == [dict |-> FALSE, hasValue |-> FALSE, value |-> <<>>]
PkEntries == {PkEntry(KeyX), PkEntry(KeyY), PkEntryNoValue, PkEntryNoDict}

Shape(shape, items) == [shape |-> shape, items |-> items]
PkOf(value) == Shape("list", <<PkEntry(value)>>)
PrimaryKeys ==
    {Shape(x, <<>>) : x \in {"absent", "scalar", "noattr"}}
    \cup {Shape("bare", <<PkEntry(KeyX)>>)}
    \cup {Shape("list", e) : e \in SeqsUpTo(PkEntries, 2)}

Attr(name, value) ==
    [dict |-> TRUE, hasName |-> TRUE, name |-> name, hasValue |-> TRUE,
     value |-> value]
AttrNoName(value) == [Attr("", value) EXCEPT !.hasName = FALSE]
AttrNoValue(name) == [Attr(name, "") EXCEPT !.hasValue = FALSE]
AttrNoDict ==
    [dict |-> FALSE, hasName |-> FALSE, name |-> "", hasValue |-> FALSE,
     value |-> ""]
AttrEntries ==
    {Attr(n, v) : n \in {"descr", "netname", "remarks"}, v \in {"a", "b"}}
    \cup {Attr("inetnum", "a"), AttrNoName("a"), AttrNoValue("descr"),
          AttrNoDict}
AttributeLists ==
    {Shape(x, <<>>) : x \in {"absent", "scalar", "text", "noattr"}}
    \cup {Shape("bare", <<e>>) : e \in AttrEntries}
    \cup {Shape("list", e) : e \in SeqsUpTo(AttrEntries, MaxAttrs)}

Object(type, pk, attrs) ==
    [dict |-> TRUE, type |-> type, pk |-> pk, attrs |-> attrs]
NoDict ==
    [dict |-> FALSE, type |-> "absent", pk |-> Shape("absent", <<>>),
     attrs |-> Shape("absent", <<>>)]

\* The raw objects one call of the extractor is tried on: every attribute
\* list under a sound head, and every head under a few attribute lists.
RawObjects ==
    {Object(t, PkOf(KeyX), a) : t \in RecognizedTypes, a \in AttributeLists}
    \cup {Object(t, k, a) :
            t \in RecognizedTypes \cup {"person", "absent"},
            k \in PrimaryKeys,
            a \in {Shape("absent", <<>>),
                   Shape("list", <<Attr("descr", "a")>>),
                   Shape("list", <<AttrNoDict>>)}}
    \cup {NoDict}

\* The raw objects of a response of the primary flow: two inetnum objects
\* with the same key and different attributes, an inet6num object, a person
\* object, an inetnum object with a broken attribute entry, and a value
\* that is no object.
ObjPool ==
    {Object("inetnum", PkOf(KeyX), Shape("list", <<Attr("descr", "a")>>)),
     Object("inetnum", PkOf(KeyX),
            Shape("list", <<Attr("descr", "b"), Attr("netname", "a")>>)),
     Object("inet6num", PkOf(KeyY),
            Shape("list", <<Attr("descr", "a"), Attr("descr", "b")>>)),
     Object("person", PkOf(KeyX), Shape("list", <<Attr("descr", "a")>>)),
     Object("inetnum", PkOf(KeyX),
            Shape("list", <<Attr("descr", "a"), AttrNoDict>>)),
     NoDict}

NoBody == Shape("noobjects", <<>>)
Bodies ==
    {Shape(x, <<>>) : x \in {"noobjects", "noobject", "scalar"}}
    \cup {Shape("bare", <<o>>) : o \in ObjPool}
    \cup {Shape("list", b) : b \in SeqsUpTo(ObjPool, MaxBatch)}

\* A body with one sound object, as an error response may carry.
GoodBody ==
    Shape("list",
          <<Object("inetnum", PkOf(KeyX),
                   Shape("list", <<Attr("descr", "a")>>))>>)

Outcome(kind, status, json, body) ==
    [kind |-> kind, status |-> status, json |-> json, body |-> body]
Outcomes ==
    {Outcome("exception", 0, FALSE, NoBody)}
    \cup {Outcome("response", st, FALSE, NoBody) : st \in {200, 404, 429, 500}}
    \cup {Outcome("response", st, TRUE, GoodBody) : st \in {404, 429, 500}}
    \cup {Outcome("response", 200, TRUE, b) : b \in Bodies}

-----------------------------------------------------------------------------
(* The program: main().                                                    *)

NotRendered == [fmt |-> "none", records |-> <<>>]

Idle ==
    /\ prefix = <<>>
    /\ requests = <<>>
    /\ slept = 0
    /\ response = <<>>
    /\ results = <<>>
    /\ extracted = <<>>
    /\ verdicts = <<>>
    /\ raised = NoError
    /\ exitCode = -1
    /\ rendered = NotRendered

Init ==
    /\ pc = "start"
    /\ arg \in PrefixArgs
    /\ data = NoBody
    /\ target = <<>>
    /\ Idle

\* Lines 527-531, and lines 545-553 when validate_prefix raises.
ValidatePrefix ==
    /\ pc = "start"
    /\ LET v == validate_prefix(arg)
       IN  IF v.ok
           THEN /\ prefix' = <<v.net>>
                /\ pc' = "search"
                /\ UNCHANGED <<raised, exitCode>>
           ELSE /\ raised' = v.err
                /\ exitCode' = 1
                /\ pc' = "exit"
                /\ UNCHANGED prefix
    /\ UNCHANGED <<arg, requests, slept, response, results, extracted,
                   verdicts, rendered, data, target>>

\* search_inetnum_in_prefix, _search_with_simple_api and _query_range up to
\* session.get (lines 50-154): the GET is issued.
SendQuery ==
    /\ pc = "search"
    /\ results' = <<>>
    /\ requests' = Append(requests, RangeQuery(prefix[1]))
    /\ pc' = "waiting"
    /\ UNCHANGED <<arg, prefix, slept, response, extracted, verdicts, raised,
                   exitCode, rendered, data, target>>

\* The rest of _query_range (lines 154-187) and the return to main().
ReceiveOutcome ==
    /\ pc = "waiting"
    /\ \E outcome \in Outcomes :
          LET h == HandleOutcome(outcome, results)
          IN  /\ response' = <<outcome>>
              /\ results' = h.results
              /\ slept' = slept + h.slept
              /\ extracted' = ExtractedDuring(outcome)
              /\ IF h.again
                 THEN /\ requests' = Append(requests, requests[Len(requests)])
                      /\ pc' = "waiting"
                 ELSE /\ pc' = "render"
                      /\ UNCHANGED requests
    /\ UNCHANGED <<arg, prefix, verdicts, raised, exitCode, rendered, data,
                   target>>

\* Lines 537-543: the selected renderer, and the normal end of main().
Render ==
    /\ pc = "render"
    /\ \E fmt \in Formats : rendered' = [fmt |-> fmt, records |-> results]
    /\ exitCode' = 0
    /\ pc' = "exit"
    /\ UNCHANGED <<arg, prefix, requests, slept, response, results, extracted,
                   verdicts, raised, data, target>>

Next == ValidatePrefix \/ SendQuery \/ ReceiveOutcome \/ Render

Spec == Init /\ [][Next]_vars

-----------------------------------------------------------------------------
(* _process_all_objects applied to a response of one raw object, carried   *)
(* in a list of one or as a bare object.                                   *)

InitExtract ==
    /\ pc = "call"
    /\ arg = Junk
    /\ data \in {Shape(x, <<o>>) : x \in {"list", "bare"}, o \in RawObjects}
    /\ target = <<>>
    /\ Idle

CallProcessAllObjects ==
    /\ pc = "call"
    /\ target = <<>>
    /\ results' = ProcessAllObjects(data, results)
    /\ extracted' = ExtractedOf(data)
    /\ pc' = "return"
    /\ UNCHANGED <<arg, prefix, requests, slept, response, verdicts, raised,
                   exitCode, rendered, data, target>>

NextExtract == CallProcessAllObjects

SpecExtract == InitExtract /\ [][NextExtract]_vars

-----------------------------------------------------------------------------
(* _process_response_objects applied to a response and a target prefix.    *)

\* target_prefix: 10.0.0.0/24, 10.0.0.128/25, 10.0.0.200/32, 10.0.1.0/26
\* and 2001:db8::/32.
FilterTargets ==
    {ParseNetwork(s, 4).net :
        s \in {WithLen(T4(10, 0, 0, 0), 24), WithLen(T4(10, 0, 0, 128), 25),
               T4(10, 0, 0, 200), WithLen(T4(10, 0, 1, 0), 26)}}
    \cup {ParseNetwork(WithLen(T6(8193, 3512, 0, 0), 32), 6).net}

\* inetnum values: every 'start - end' pair of a few IPv4 addresses around
\* the targets' edges, IPv6 addresses in the same form, CIDR strings, a
\* word that is no address, and three words.
RangeEnds ==
    {T4(9, 255, 255, 255), T4(10, 0, 0, 128), T4(10, 0, 0, 200),
     T4(10, 0, 1, 0), T4(10, 0, 1, 50)}
InetnumTexts ==
    {<<a, b>> : a \in RangeEnds, b \in RangeEnds}
    \cup {<<T6(8193, 3512, 0, 0), T6(8193, 3512, 0, 65535)>>,
          <<T6(8193, 3513, 0, 0), T6(8193, 3513, 0, 65535)>>,
          <<T4(10, 0, 0, 128), Junk>>,
          <<T4(10, 0, 0, 128), T4(10, 0, 0, 200), T4(10, 0, 1, 0)>>,
          <<WithLen(T4(10, 0, 0, 0), 8)>>,
          <<WithLen(T4(10, 0, 0, 0), 33)>>,
          <<Junk>>,
          KeyY}
FilterObjects ==
    {Object("inetnum", PkOf(t), Shape("absent", <<>>)) : t \in InetnumTexts}
    \cup {Object("person", PkOf(KeyX), Shape("absent", <<>>))}

InitFilter ==
    /\ pc = "call"
    /\ arg = Junk
    /\ data \in {Shape("list", b) : b \in SeqsUpTo(FilterObjects, MaxFilterBatch)}
    /\ target \in {<<t>> : t \in FilterTargets}
    /\ Idle

CallProcessResponseObjects ==
    /\ pc = "call"
    /\ target # <<>>
    /\ results' = ProcessResponseObjects(data, target[1], results)
    /\ extracted' = ExtractedOf(data)
    /\ verdicts' = VerdictsOf(data, target[1])
    /\ pc' = "return"
    /\ UNCHANGED <<arg, prefix, requests, slept, response, raised, exitCode,
                   rendered, data, target>>

NextFilter == CallProcessResponseObjects

SpecFilter == InitFilter /\ [][NextFilter]_vars

-----------------------------------------------------------------------------
(* Properties of the aggregator (_process_all_objects) in the primary      *)
(* flow.                                                                   *)

\* The raw objects of the response that was processed.
Processed ==
    IF response = <<>> THEN <<>> ELSE ObjectsOf(response[1].body)

\* The extractor accepted object i.
Accepted(i) == extracted[i] # None

\* The primary-key value object o carries, if it carries one.
CarriesKey(o, key) ==
    /\ o.dict
    /\ o.pk.shape = "list"
    /\ o.pk.items # <<>>
    /\ o.pk.items[1].dict
    /\ o.pk.items[1].hasValue
    /\ o.pk.items[1].value = key

NoTwoWithSameInetnum ==
    \A i, j \in 1..Len(results) :
        i # j => results[i].inetnum # results[j].inetnum

\* The first accepted object with the key of results[k].
FirstAccepted(k) ==
    CHOOSE i \in 1..Len(extracted) :
        /\ Accepted(i)
        /\ extracted[i][1].inetnum = results[k].inetnum
        /\ \A j \in 1..(i - 1) :
              Accepted(j) => extracted[j][1].inetnum # results[k].inetnum

\* C1 as amended: after _process_all_objects has processed a response into
\* a Result Set that started empty, no two records have the same inetnum,
\* each record is the one extracted from the first object ACCEPTED BY THE
\* EXTRACTOR that carries its primary-key value, and the records are in
\* the order of those first accepted occurrences.
C1_FirstAcceptedWins ==
    extracted # <<>> =>
        /\ NoTwoWithSameInetnum
        /\ \A k \in 1..Len(results) :
              /\ \E i \in 1..Len(extracted) :
                    Accepted(i) /\ extracted[i][1].inetnum = results[k].inetnum
              /\ results[k] = extracted[FirstAccepted(k)][1]
        /\ \A k, l \in 1..Len(results) :
              k < l => FirstAccepted(k) < FirstAccepted(l)

\* C1 witness: three accepted objects, the third with the key of the first
\* and other attributes, and two records kept.
C1_Witness ==
    /\ pc = "exit"
    /\ Len(extracted) = 3
    /\ \A i \in 1..3 : Accepted(i)
    /\ extracted[3][1].inetnum = extracted[1][1].inetnum
    /\ extracted[3] # extracted[1]
    /\ extracted[2][1].inetnum # extracted[1][1].inetnum
    /\ results = <<extracted[1][1], extracted[2][1]>>

\* C1 as stated: each record kept is the one extracted from the first
\* object of the response that carries its primary-key value.
C1_Original ==
    extracted # <<>> =>
        /\ NoTwoWithSameInetnum
        /\ \A k \in 1..Len(results) :
              \E i \in 1..Len(Processed) :
                  /\ CarriesKey(Processed[i], results[k].inetnum)
                  /\ \A j \in 1..(i - 1) :
                        ~CarriesKey(Processed[j], results[k].inetnum)
                  /\ extracted[i] = Some(results[k])

\* The positions of the accepted objects whose key no earlier accepted
\* object has: the well-formed, non-duplicate objects.
FirstOccurrences ==
    {i \in 1..Len(extracted) :
        /\ Accepted(i)
        /\ \A j \in 1..(i - 1) :
              Accepted(j) => extracted[j][1].inetnum # extracted[i][1].inetnum}

\* An object the extractor discards although its type is recognized or
\* because it is no object at all.
Malformed(o) ==
    /\ ExtractRecord(o) = None
    /\ ~o.dict \/ o.type \in RecognizedTypes

\* C9: a malformed object is discarded on its own: every well-formed,
\* non-duplicate object before or after it is in the Result Set, in the
\* order of the response, and nothing else is.
C9_MalformedDoesNotAbort ==
    extracted # <<>> =>
        /\ Len(results) = Cardinality(FirstOccurrences)
        /\ \A i \in FirstOccurrences :
              results[Cardinality({j \in FirstOccurrences : j <= i})]
                  = extracted[i][1]

\* C9 witness: a malformed object between two well-formed ones, both kept.
C9_Witness ==
    /\ pc = "exit"
    /\ Len(Processed) = 3
    /\ Malformed(Processed[2])
    /\ Processed[2].dict
    /\ FirstOccurrences = {1, 3}
    /\ results = <<extracted[1][1], extracted[3][1]>>

-----------------------------------------------------------------------------
(* Properties of the extractor (_extract_record_from_object), on a         *)
(* response of one raw object.                                             *)

\* The raw object given, and what the extractor returned for it.
Given == data.items[1]
Returned == extracted[1]

\* The first entry of the primary key is an object with a value.
KeyReadable(o) ==
    /\ o.pk.shape = "list"
    /\ Len(o.pk.items) >= 1
    /\ o.pk.items[1].dict
    /\ o.pk.items[1].hasValue

\* The object has no primary key: no 'primary-key' member, none with an
\* 'attribute' member, or an empty attribute list in it.
NoPrimaryKey(o) ==
    \/ o.pk.shape \in {"absent", "noattr"}
    \/ o.pk.shape = "list" /\ o.pk.items = <<>>

\* C2: the extractor returns None for an object whose type tag is not
\* inetnum or inet6num and for an object without a primary key; so every
\* record in the Result Set has the key inetnum, holding the primary-key
\* value of an object of a recognized type.
C2_TypeAndKeyRequired ==
    pc = "return" =>
        /\ (~Given.dict \/ Given.type \notin {"inetnum", "inet6num"})
              => Returned = None
        /\ NoPrimaryKey(Given) => Returned = None
        /\ \A k \in 1..Len(results) :
              /\ "inetnum" \in DOMAIN results[k]
              /\ Given.dict
              /\ Given.type \in {"inetnum", "inet6num"}
              /\ KeyReadable(Given)
              /\ results[k].inetnum = Given.pk.items[1].value

\* C2 witness: a person object with a readable primary key and a sound
\* attribute list, discarded.
C2_Witness ==
    /\ pc = "return"
    /\ Given.dict
    /\ Given.type = "person"
    /\ KeyReadable(Given)
    /\ Given.attrs = Shape("list", <<Attr("descr", "a")>>)
    /\ Returned = None
    /\ results = <<>>

\* The entries of the attribute list, a bare entry as a list of one.
EntriesOf(o) ==
    IF o.attrs.shape \in {"list", "bare"} THEN o.attrs.items ELSE <<>>

\* The values the entries named `name` give, in the order of the list.
ValuesNamed(o, name) ==
    LET named == SelectSeq(EntriesOf(o),
                           LAMBDA e : e.hasName /\ e.name = name)
    IN  [i \in 1..Len(named) |->
            IF named[i].hasValue THEN named[i].value ELSE ""]

\* C3: in an accepted object, a recognized field that occurs 0 times is
\* absent from the record, one that occurs once is that single value, one
\* that occurs n >= 2 times is the list of the n values in source order;
\* no other name is a key of the record.
C3_MultiValueMerge ==
    (pc = "return" /\ Returned # None) =>
        LET record == Returned[1]
        IN  /\ DOMAIN record \subseteq RecognizedFields \cup {"inetnum"}
            /\ \A name \in RecognizedFields :
                  LET vals == ValuesNamed(Given, name)
                  IN  /\ Len(vals) = 0 => name \notin DOMAIN record
                      /\ Len(vals) = 1 =>
                            /\ name \in DOMAIN record
                            /\ record[name] = [list |-> FALSE, vals |-> vals]
                      /\ Len(vals) >= 2 =>
                            /\ name \in DOMAIN record
                            /\ record[name] = [list |-> TRUE, vals |-> vals]

\* C3 witness: descr three times with values that differ, an unrecognized
\* name nowhere in the record.
C3_Witness ==
    /\ pc = "return"
    /\ Returned # None
    /\ Len(EntriesOf(Given)) >= 3
    /\ "descr" \in DOMAIN Returned[1]
    /\ Returned[1]["descr"].list
    /\ Len(Returned[1]["descr"].vals) >= 3
    /\ Returned[1]["descr"].vals[1] # Returned[1]["descr"].vals[2]
    /\ results = <<Returned[1]>>

\* A structural defect on which the extractor raises: the object is no
\* JSON object; the primary key is a scalar, its 'attribute' is no list or
\* an empty one, its first entry is no object or has no value; the
\* 'attributes' member is a scalar; an attribute entry is no object.
RaisingDefect(o) ==
    \/ ~o.dict
    \/ o.pk.shape \in {"scalar", "bare"}
    \/ o.pk.shape = "list" /\ ~KeyReadable(o)
    \/ o.attrs.shape = "scalar"
    \/ \E i \in 1..Len(EntriesOf(o)) : ~EntriesOf(o)[i].dict

\* A structural defect the extractor lets pass: an 'attributes' member of
\* the wrong type in which `'attribute' in` is False (a string, a list), an
\* attribute entry without its name or without its value.
ToleratedDefect(o) ==
    \/ o.attrs.shape = "text"
    \/ \E i \in 1..Len(EntriesOf(o)) :
          /\ EntriesOf(o)[i].dict
          /\ ~EntriesOf(o)[i].hasName \/ ~EntriesOf(o)[i].hasValue

\* A structural defect: a missing key or a wrong-typed value in the type
\* tag, the primary key, the attribute list or one of its entries.  (An
\* object with no attribute list at all is not counted as defective.)
StructuralDefect(o) ==
    \/ RaisingDefect(o)
    \/ ToleratedDefect(o)
    \/ o.type = "absent"
    \/ o.pk.shape \in {"absent", "noattr"}

AsListOfOne(member) == [member EXCEPT !.shape = "list"]

\* C11: shape normalization preserves the result.  A response whose
\* 'object' member is one bare object gives the Result Set that the response
\* with that object in a list of one gives, and a raw object whose
\* 'attribute' member is one bare attribute gives the record (or the
\* discard) that the object with that attribute in a list of one gives.
C11_ShapeNormalizationPreserves ==
    pc = "return" =>
        /\ data.shape = "bare"
              => results = ProcessAllObjects(AsListOfOne(data), <<>>)
        /\ (Given.dict /\ Given.attrs.shape = "bare")
              => Returned
                   = ExtractRecord([Given EXCEPT !.attrs = AsListOfOne(@)])

\* C11 witness: a bare inetnum object whose attribute list is one bare
\* descr attribute; the Result Set is the one record with the key and the
\* single descr value.
C11_Witness ==
    /\ pc = "return"
    /\ data.shape = "bare"
    /\ Given.type = "inetnum"
    /\ Given.pk = PkOf(KeyX)
    /\ Given.attrs = Shape("bare", <<Attr("descr", "a")>>)
    /\ Returned # None
    /\ DOMAIN Returned[1] = {"inetnum", "descr"}
    /\ Returned[1].inetnum = KeyX
    /\ Returned[1].descr = [list |-> FALSE, vals |-> <<"a">>]
    /\ results = <<Returned[1]>>

-----------------------------------------------------------------------------
(* Properties of the primary flow: main(), search_inetnum_in_prefix,       *)
(* _query_range.                                                           *)

\* The outcome of the GET, once it is back.
Got == response[1]

\* C4: one invocation issues exactly one GET whatever comes back; on a 429
\* the client sleeps once, for 5 seconds, the attempt gives no record, and
\* the range is not queried again.
C4_OneGetSingleBackoff ==
    /\ Len(requests) <= 1
    /\ prefix # <<>> /\ pc # "search" => Len(requests) = 1
    /\ response # <<>> =>
          /\ pc \in {"render", "exit"}
          /\ Len(requests) = 1
          /\ IF Got.kind = "response" /\ Got.status = 429
             THEN slept = 5 /\ results = <<>>
             ELSE slept = 0

\* C4 witness: the program has ended after a 429.
C4_Witness ==
    /\ pc = "exit"
    /\ response # <<>>
    /\ Got.kind = "response"
    /\ Got.status = 429
    /\ Got.json
    /\ slept = 5
    /\ Len(requests) = 1
    /\ exitCode = 0

\* The outcome is anything but an HTTP 200 with a body that parses.
QueryFailed(o) == o.kind = "exception" \/ o.status # 200 \/ ~o.json

\* C5: for a valid prefix, an outcome other than a parseable HTTP 200 leaves
\* the Result Set as it was before the query (empty), nothing is raised, the
\* selected renderer is given the records collected so far, and the program
\* exits with code 0.
C5_FailureBelowQueryBoundary ==
    (response # <<>> /\ QueryFailed(Got)) =>
        /\ results = <<>>
        /\ raised.exc = "none"
        /\ pc \in {"render", "exit"}
        /\ pc = "render" => exitCode = -1 /\ ENABLED Render
        /\ pc = "exit" =>
              /\ exitCode = 0
              /\ rendered.fmt \in {"table", "json", "csv"}
              /\ rendered.records = <<>>

\* C5 witness: an HTTP 500 whose body parses and carries an object, the
\* renderer called with no record, exit code 0.
C5_Witness ==
    /\ pc = "exit"
    /\ response # <<>>
    /\ Got.kind = "response"
    /\ Got.status = 500
    /\ Got.json
    /\ ObjectsOf(Got.body) # <<>>
    /\ rendered = [fmt |-> "json", records |-> <<>>]
    /\ exitCode = 0

\* The string is a valid prefix of the version: an address of that family,
\* alone or with a prefix length within the family's width.
ValidPrefixText(s, version) ==
    /\ s.addr = FamilyTag(version)
    /\ \/ s.suffix = "none"
       \/ s.suffix = "len" /\ s.len \in 0..(IF version = 4 THEN 32 ELSE 128)

\* C6 as stated: for an input that is neither a valid IPv4 nor a valid IPv6
\* prefix, IPv6 parsing is attempted after IPv4 parsing failed, the error is
\* the AddressValueError that carries the original string and the reason,
\* no query is issued and the exit code is 1.
C6_InvalidPrefixError ==
    (pc = "exit" /\ ~ValidPrefixText(arg, 4) /\ ~ValidPrefixText(arg, 6)) =>
        /\ raised.triedV6
        /\ raised.exc = "AddressValueError"
        /\ raised.wrapped
        /\ requests = <<>>
        /\ exitCode = 1

\* How many of the low bits of group i (1 the most significant, w bits
\* wide) lie beyond the first len bits of the address.
BitsBeyond(w, len, i) ==
    IF i * w <= len THEN 0 ELSE IF (i - 1) * w >= len THEN w ELSE i * w - len

\* g is the address a with every bit from bit len on cleared (fill 0) or
\* set (fill 1).
MaskedTo(version, g, a, len, fill) ==
    LET w == IF version = 4 THEN 8 ELSE 16
    IN  /\ Len(g) = Len(a)
        /\ \A i \in 1..Len(a) :
              LET low == Pow2(BitsBeyond(w, len, i))
              IN  g[i] = a[i] - (a[i] % low) + fill * (low - 1)

\* The prefix length of a valid prefix string.
LengthOf(s, version) ==
    IF s.suffix = "none" THEN (IF version = 4 THEN 32 ELSE 128) ELSE s.len

\* C7: a valid IPv4 input, host bits set or not, is accepted and gives
\* exactly one Range Query, '<start> - <end>' with start the input address
\* with its host bits cleared and end the same with them set, of type
\* inetnum; a valid IPv6 input gives the CIDR string of the masked network,
\* of type inet6num.
C7_OneRangeQueryPerPrefix ==
    /\ (ValidPrefixText(arg, 4) \/ ValidPrefixText(arg, 6)) =>
          /\ raised.exc = "none"
          /\ pc \notin {"start", "search"} => Len(requests) = 1
    /\ (ValidPrefixText(arg, 4) /\ requests # <<>>) =>
          LET q == requests[1]
              len == LengthOf(arg, 4)
          IN  /\ q.type = "inetnum"
              /\ Len(q.query) = 2
              /\ \A i \in 1..2 : q.query[i].addr = "v4"
                                 /\ q.query[i].suffix = "none"
              /\ MaskedTo(4, q.query[1].g, arg.g, len, 0)
              /\ MaskedTo(4, q.query[2].g, arg.g, len, 1)
    /\ (ValidPrefixText(arg, 6) /\ requests # <<>>) =>
          LET q == requests[1]
              len == LengthOf(arg, 6)
          IN  /\ q.type = "inet6num"
              /\ Len(q.query) = 1
              /\ q.query[1].addr = "v6"
              /\ q.query[1].suffix = "len"
              /\ q.query[1].len = len
              /\ MaskedTo(6, q.query[1].g, arg.g, len, 0)

\* C7 witness: 10.0.0.200/24 has given the query 10.0.0.0 - 10.0.0.255.
C7_Witness ==
    /\ arg = WithLen(T4(10, 0, 0, 200), 24)
    /\ requests =
          <<[query |-> <<T4(10, 0, 0, 0), T4(10, 0, 0, 255)>>,
             type |-> "inetnum"]>>
    /\ pc = "exit"

-----------------------------------------------------------------------------
(* Properties of the containment filter (_record_in_prefix), applied by    *)
(* _process_response_objects.                                              *)

\* The inetnum of the record extracted from object i.
InetnumOf(i) == extracted[i][1].inetnum

\* The inetnum is 'start - end' with two bare addresses of one family,
\* start <= end.
IsRangeOf(text, family) ==
    /\ Len(text) = 2
    /\ \A w \in 1..2 : text[w].addr = family /\ text[w].suffix = "none"
    /\ AddrLe(text[1].g, text[2].g)

\* The range [start, end] and the address range of the network share an
\* address: the larger of the two lower ends lies in both.
SharesAddress(text, family, net) ==
    /\ family = FamilyTag(net.version)
    /\ \E x \in {text[1].g, net.g} :
          /\ AddrLe(text[1].g, x) /\ AddrLe(x, text[2].g)
          /\ AddrLe(net.g, x) /\ AddrLe(x, BroadcastAddress(net))

\* Only records judged overlapping are admitted.
AdmittedWereJudgedIn ==
    \A k \in 1..Len(results) :
        \E i \in 1..Len(extracted) :
            extracted[i] = Some(results[k]) /\ verdicts[i] = <<TRUE>>

\* The inetnum is two words, each a bare address (of either family, without
\* a zone).
IsAddressPair(text) ==
    /\ Len(text) = 2
    /\ \A w \in 1..2 : text[w].addr \in {"v4", "v6"} /\ text[w].suffix = "none"

\* C10 as amended: for every requested IPv4 prefix and every record whose
\* inetnum is 'start - end' with IPv4 addresses start <= end, the record is
\* judged overlapping exactly when [start, end] and the prefix's range share
\* an address.  Under a requested IPv6 prefix the rule is not applied: the
\* whole string goes to IPv6Network, and a 'start - end' pair of plain
\* addresses is judged not overlapping.
C10_RangeOverlapIPv4 ==
    pc = "return" =>
        /\ AdmittedWereJudgedIn
        /\ \A i \in 1..Len(extracted) :
              Accepted(i) =>
                  /\ (target[1].version = 4 /\ IsRangeOf(InetnumOf(i), "v4"))
                        => verdicts[i]
                             = <<SharesAddress(InetnumOf(i), "v4", target[1])>>
                  /\ (target[1].version = 6 /\ IsAddressPair(InetnumOf(i)))
                        => verdicts[i] = <<FALSE>>

\* C10 witness: for the prefix 10.0.0.0/24, '10.0.0.128 - 10.0.0.200' is
\* judged overlapping and admitted, '10.0.1.0 - 10.0.1.50' is not.
C10_Witness ==
    /\ pc = "return"
    /\ target = <<[version |-> 4, g |-> <<10, 0, 0, 0>>, len |-> 24]>>
    /\ Len(extracted) = 2
    /\ Accepted(1) /\ Accepted(2)
    /\ InetnumOf(1) = <<T4(10, 0, 0, 128), T4(10, 0, 0, 200)>>
    /\ InetnumOf(2) = <<T4(10, 0, 1, 0), T4(10, 0, 1, 50)>>
    /\ verdicts = << <<TRUE>>, <<FALSE>> >>
    /\ results = <<extracted[1][1]>>

\* C10 as stated: for every requested prefix and every record whose inetnum
\* is 'start - end' with start <= end, the record is judged overlapping
\* exactly when the range and the prefix's range share an address.
C10_Original ==
    pc = "return" =>
        \A i \in 1..Len(extracted) :
            Accepted(i) =>
                \A family \in {"v4", "v6"} :
                    IsRangeOf(InetnumOf(i), family)
                        => verdicts[i]
                             = <<SharesAddress(InetnumOf(i), family, target[1])>>

====
